---- MODULE Spec2Model ----
(***************************************************************************)
(* Car_Managment: the car routes (src/routes/carRoutes.js) behind the      *)
(* authentication middleware (src/server.js, lines 25-45).                 *)
(*                                                                         *)
(* State: the car collection (Car model), the Cloudinary folder "cars",    *)
(* and the requests in flight.  Every await of a handler is a point where  *)
(* another request may run, so every handler is cut at its awaits: one     *)
(* action per await, holding the synchronous code that follows it.         *)
(*                                                                         *)
(* A request's fields (body, files, existingImages) are fixed when the     *)
(* request is sent; they are drawn at the step that first reads them,      *)
(* which yields the same behaviours with fewer intermediate states.        *)
(* authMiddleware reads only the user collection, which no route of        *)
(* src/ writes, so it is run within the arrival step.                      *)
(***************************************************************************)
EXTENDS Integers, Sequences, FiniteSets, TLC

\* ------------------------------------------------------------- bounds
MaxCars == 2      \* car documents ever created
MaxAssets == 2      \* images ever uploaded
MaxRetain == 1      \* entries of existingImages in one request of the model
MaxRequests == 3    \* requests received in one run of the model

\* upload.array('images', 10) / upload.array("newImages", 10)
UploadLimit == 10

Slots == {1, 2}                 \* requests in flight at once
Users == {"A", "B"}             \* documents of the user collection
\* Authorization headers: none, a token jwt.verify rejects, a token of an
\* existing user, a valid token whose user no longer exists
Credentials == {"none", "bad", "tokA", "tokB", "tokGone"}
Methods == {"POST", "PUT", "DELETE", "LIST", "GET"}
CarIds == 1..MaxCars
\* req.body's title, description, tags: those a POST of the model sends and
\* those a PUT sends, which differ so that an update shows
Bodies(method) ==
  IF method = "POST"
  THEN {[title |-> "t1", description |-> "d1", tags |-> <<"g1">>]}
  ELSE {[title |-> "t2", description |-> "d2", tags |-> <<"g2", "g3">>]}

VARIABLES cars, assets, nextId, nextAsset, req, sent
vars == <<cars, assets, nextId, nextAsset, req, sent>>

\* ------------------------------------------------------------- values
\* file.path of an uploaded file: <cloud>/cars/<public id>.<format>
Url(n) == [folder |-> "cars", name |-> n, ext |-> "jpg"]

\* the asset a URL retrieves: the folder and public id in its path
AssetOf(url) == [folder |-> url.folder, name |-> url.name]

\* imageUrl.split('/').pop().split('.')[0]
PublicId(url) == url.name

\* a destroy call that passes the public id without its folder
DestroyTargetNoFolder(url) == [folder |-> "", name |-> PublicId(url)]

\* `cars/${publicId}`
DestroyTarget(url) == [folder |-> "cars", name |-> PublicId(url)]

\* the result of a query that matches nothing (null)
NoCar == [id |-> 0, title |-> "", description |-> "", tags |-> <<>>,
          images |-> <<>>, user |-> ""]

\* jwt.verify + User.findById: the user a credential resolves to, "" if none
Verify(cred) ==
  CASE cred = "tokA" -> "A"
    [] cred = "tokB" -> "B"
    [] OTHER -> ""

\* the serialized existingImages field: absent, not JSON, or a JSON array
ExistingInputs ==
  {[kind |-> "absent", val |-> <<>>], [kind |-> "malformed", val |-> <<>>]}
  \cup {[kind |-> "array", val |-> v] :
          v \in UNION {[1..k -> {Url(n) : n \in 1..(nextAsset - 1)}] : k \in 0..MaxRetain}}

\* JSON.parse(existingImages || "[]"): ok = FALSE when it throws
ParseExisting(e) ==
  CASE e.kind = "absent" -> [ok |-> TRUE, val |-> <<>>]
    [] e.kind = "malformed" -> [ok |-> FALSE, val |-> <<>>]
    [] OTHER -> [ok |-> TRUE, val |-> e.val]

\* a merge that puts the new files' paths first
MergeImagesNewFirst(retained, files) ==
  IF Len(files) > 0 THEN files \o retained ELSE retained

\* updateData.images: the parsed list, then the new files' paths when any
MergeImages(retained, files) ==
  IF Len(files) > 0 THEN retained \o files ELSE retained

\* a lookup by _id alone
FindOneAnyUser(id, user) ==
  IF id \in DOMAIN cars THEN cars[id] ELSE NoCar

\* Car.findOne({ _id, user })
FindOne(id, user) ==
  IF id \in DOMAIN cars /\ cars[id].user = user THEN cars[id] ELSE NoCar

\* Car.find({ user })
Find(user) == {cars[i] : i \in {j \in DOMAIN cars : cars[j].user = user}}

\* A connection's request: its inputs (method, cred, id, body, files,
\* existing), the handler's locals (user = req.user.id, car = existingCar or
\* car, images = updateData.images or car.images, idx and log = the for
\* loop's position and the destroy calls made), its response (status, res or
\* list, by = who answered), and what it did: fault = the failure it met,
\* touched = it reached the car collection or Cloudinary, wrote = it changed
\* the car collection
Idle == [pc |-> "idle", method |-> "", cred |-> "", user |-> "", id |-> 0,
         body |-> [title |-> "", description |-> "", tags |-> <<>>],
         files |-> <<>>, existing |-> [kind |-> "absent", val |-> <<>>],
         car |-> NoCar, images |-> <<>>, idx |-> 0, log |-> <<>>,
         status |-> 0, by |-> "", res |-> NoCar, list |-> {},
         fault |-> "none", touched |-> FALSE, wrote |-> FALSE]

\* res.status(code).json(...) from the place `by`
Respond(r, code, by) == [r EXCEPT !.pc = "done", !.status = code, !.by = by]

\* A response leaves with the step that sends it: the connections whose
\* response has been sent are free again at the next step
Live == [q \in Slots |-> IF req[q].pc = "done" THEN Idle ELSE req[q]]

Init ==
  /\ cars = <<>>
  /\ assets = {}
  /\ nextId = 1
  /\ nextAsset = 1
  /\ req = [s \in Slots |-> Idle]
  /\ sent = 0

\* ------------------------------------------------------------- authMiddleware
\* a middleware that checks only that the header is there and the user exists
AuthStatusHeaderOnly(cred) ==
  IF cred = "none" THEN 401
  ELSE IF cred # "bad" /\ Verify(cred) \notin Users THEN 401
  ELSE 0

\* The status authMiddleware answers with, 0 when it calls next()
AuthStatus(cred) ==
  IF cred = "none" THEN 401                     \* Authorization required
  ELSE IF cred = "bad" THEN 401                 \* jwt.verify throws: Invalid token
  ELSE IF Verify(cred) \notin Users THEN 401    \* User not found
  ELSE 0

\* the routes with a :id parameter
HasId(method) == method \in {"PUT", "DELETE", "GET"}

\* req.params.id, read by the handler: the id of a document created so far
\* or the next one, which no document has; 0 when the route has none
RequestIds == {0} \cup {i \in CarIds : i <= nextId}

\* the first stage after authMiddleware on each route
FirstStage(method) ==
  CASE method \in {"POST", "PUT"} -> "upload"
    [] method = "DELETE" -> "del_findOne"
    [] method = "LIST" -> "list_find"
    [] OTHER -> "get_findOne"

\* A request arrives on a free connection (the lowest one, the connections
\* being interchangeable) and passes authMiddleware
Request(s) ==
  /\ req[s].pc \in {"idle", "done"}
  /\ \A q \in Slots : q < s => req[q].pc \notin {"idle", "done"}
  /\ sent < MaxRequests
  /\ sent' = sent + 1
  /\ \E method \in Methods, cred \in Credentials, id \in RequestIds :
       /\ (HasId(method) /\ AuthStatus(cred) = 0) \/ id = 0
       /\ (HasId(method) /\ AuthStatus(cred) = 0) => id # 0
       /\ LET r == [Idle EXCEPT !.method = method, !.cred = cred]
          IN req' = [Live EXCEPT ![s] =
               IF AuthStatus(cred) # 0
               THEN Respond(r, AuthStatus(cred), "auth")
               ELSE [r EXCEPT !.pc = FirstStage(method), !.user = Verify(cred),
                              !.id = id]]
  /\ UNCHANGED <<cars, assets, nextId, nextAsset>>

\* ------------------------------------------------------------- upload.array
\* multer with CloudinaryStorage: every file is stored before the handler runs
UploadOk(s) ==
  /\ req[s].pc = "upload"
  /\ \E n \in 0..MaxAssets :
       /\ n <= UploadLimit
       /\ nextAsset + n - 1 <= MaxAssets
       /\ assets' = assets \cup {AssetOf(Url(k)) : k \in nextAsset..(nextAsset + n - 1)}
       /\ nextAsset' = nextAsset + n
       /\ req' = [Live EXCEPT ![s] =
            [req[s] EXCEPT !.pc = IF req[s].method = "POST" THEN "post_save"
                                  ELSE "put_findOne",
                           !.files = [k \in 1..n |-> Url(nextAsset + k - 1)],
                           !.touched = (n > 0)]]
  /\ UNCHANGED <<cars, nextId, sent>>

\* An upload is rejected: multer passes the error to next(err); the route's
\* handler never runs and Express's default error handler answers
UploadFail(s) ==
  /\ req[s].pc = "upload"
  /\ req' = [Live EXCEPT ![s] =
       Respond([@ EXCEPT !.fault = "upload", !.touched = TRUE], 500, "express")]
  /\ UNCHANGED <<cars, assets, nextId, nextAsset, sent>>

\* ------------------------------------------------------------- POST /
\* a document whose images are stored last file first
NewCarReversed(id, body, images, user) ==
  [id |-> id, title |-> body.title, description |-> body.description,
   tags |-> body.tags, images |-> [k \in 1..Len(images) |-> images[Len(images) + 1 - k]],
   user |-> user]

\* new Car({title, description, tags, images, user: req.user.id})
NewCar(id, body, images, user) ==
  [id |-> id, title |-> body.title, description |-> body.description,
   tags |-> body.tags, images |-> images, user |-> user]

PostSave(s) ==
  /\ req[s].pc = "post_save"
  /\ nextId <= MaxCars
  /\ \E body \in Bodies(req[s].method) :
       LET car == NewCar(nextId, body, req[s].files, req[s].user)
       IN /\ cars' = (nextId :> car) @@ cars
          /\ nextId' = nextId + 1
          /\ req' = [Live EXCEPT ![s] =
               Respond([@ EXCEPT !.body = body, !.res = car, !.touched = TRUE,
                                 !.wrote = TRUE], 201, "handler")]
  /\ UNCHANGED <<assets, nextAsset, sent>>

PostSaveFail(s) ==
  /\ req[s].pc = "post_save"
  /\ req' = [Live EXCEPT ![s] =
       Respond([@ EXCEPT !.fault = "store", !.touched = TRUE], 500, "handler")]
  /\ UNCHANGED <<cars, assets, nextId, nextAsset, sent>>

\* ------------------------------------------------------------- PUT /:id
\* Car.findOne resolves; the code up to the next await runs with it
PutFindOne(s) ==
  /\ req[s].pc = "put_findOne"
  /\ \E e \in ExistingInputs :
       LET r == [req[s] EXCEPT !.touched = TRUE]
           parsed == ParseExisting(e)
       IN req' = [Live EXCEPT ![s] =
            IF FindOne(r.id, r.user) = NoCar
            THEN Respond(r, 404, "handler")
            ELSE IF ~parsed.ok
            THEN Respond([r EXCEPT !.existing = e, !.fault = "parse",
                                   !.car = FindOne(r.id, r.user)], 500, "handler")
            ELSE [r EXCEPT !.pc = "put_update", !.existing = e,
                           !.car = FindOne(r.id, r.user),
                           !.images = MergeImages(parsed.val, r.files)]]
  /\ UNCHANGED <<cars, assets, nextId, nextAsset, sent>>

\* Car.findOne rejects
PutFindOneFail(s) ==
  /\ req[s].pc = "put_findOne"
  /\ req' = [Live EXCEPT ![s] =
       Respond([@ EXCEPT !.fault = "store", !.touched = TRUE], 500, "handler")]
  /\ UNCHANGED <<cars, assets, nextId, nextAsset, sent>>

\* the document after findOneAndUpdate's $set of updateData
Updated(car, body, images) ==
  [car EXCEPT !.title = body.title, !.description = body.description,
              !.tags = body.tags, !.images = images]

\* Car.findOneAndUpdate({ _id, user }, updateData, { new: true }) resolves,
\* with the new document or with null; res.status(200).json(updatedCar)
PutUpdate(s) ==
  /\ req[s].pc = "put_update"
  /\ \E body \in Bodies(req[s].method) :
       LET r == [req[s] EXCEPT !.body = body]
           old == FindOne(r.id, r.user)
           new == Updated(old, body, r.images)
       IN IF old = NoCar
          THEN /\ cars' = cars
               /\ req' = [Live EXCEPT ![s] = Respond([r EXCEPT !.res = NoCar], 200, "handler")]
          ELSE /\ cars' = [cars EXCEPT ![r.id] = new]
               /\ req' = [Live EXCEPT ![s] =
                    Respond([r EXCEPT !.res = new, !.wrote = TRUE], 200, "handler")]
  /\ UNCHANGED <<assets, nextId, nextAsset, sent>>

PutUpdateFail(s) ==
  /\ req[s].pc = "put_update"
  /\ req' = [Live EXCEPT ![s] = Respond([@ EXCEPT !.fault = "store"], 500, "handler")]
  /\ UNCHANGED <<cars, assets, nextId, nextAsset, sent>>

\* ------------------------------------------------------------- DELETE /:id
DelFindOne(s) ==
  /\ req[s].pc = "del_findOne"
  /\ LET r == [req[s] EXCEPT !.touched = TRUE]
         car == FindOne(r.id, r.user)
     IN req' = [Live EXCEPT ![s] =
          IF car = NoCar
          THEN Respond(r, 404, "handler")
          ELSE [r EXCEPT !.pc = "del_loop", !.car = car, !.images = car.images,
                         !.idx = 1]]
  /\ UNCHANGED <<cars, assets, nextId, nextAsset, sent>>

DelFindOneFail(s) ==
  /\ req[s].pc = "del_findOne"
  /\ req' = [Live EXCEPT ![s] =
       Respond([@ EXCEPT !.fault = "store", !.touched = TRUE], 500, "handler")]
  /\ UNCHANGED <<cars, assets, nextId, nextAsset, sent>>

\* a loop that walks the list from its end
CurrentImageFromEnd(r) == r.images[Len(r.images) + 1 - r.idx]

\* for (const imageUrl of car.images): the image of the current iteration
CurrentImage(r) == r.images[r.idx]

\* whether the for loop has another iteration
LoopRunning(r) == r.idx <= Len(r.images)

\* a loop that catches the rejection of a destroy call and goes on
AfterDestroySwallow(r, ok) ==
  [r EXCEPT !.log = Append(@, [url |-> r.images[r.idx], ok |-> ok]), !.idx = @ + 1]

\* the request once `await cloudinary.uploader.destroy(...)` settles: the next
\* iteration when it resolves, the catch block when it rejects
AfterDestroy(r, ok) ==
  LET logged == [r EXCEPT !.log = Append(@, [url |-> CurrentImage(r), ok |-> ok])]
  IN IF ok
     THEN [logged EXCEPT !.idx = @ + 1]
     ELSE Respond([logged EXCEPT !.fault = "destroy"], 500, "handler")

\* cloudinary.uploader.destroy resolves: the asset, if there, is gone
DelDestroy(s) ==
  /\ req[s].pc = "del_loop"
  /\ LoopRunning(req[s])
  /\ assets' = assets \ {DestroyTarget(CurrentImage(req[s]))}
  /\ req' = [Live EXCEPT ![s] = AfterDestroy(@, TRUE)]
  /\ UNCHANGED <<cars, nextId, nextAsset, sent>>

\* cloudinary.uploader.destroy rejects
DelDestroyFail(s) ==
  /\ req[s].pc = "del_loop"
  /\ LoopRunning(req[s])
  /\ req' = [Live EXCEPT ![s] = AfterDestroy(@, FALSE)]
  /\ UNCHANGED <<cars, assets, nextId, nextAsset, sent>>

\* the collection after Car.findOneAndDelete({ _id, user })
Without(id, user) ==
  IF FindOne(id, user) = NoCar THEN cars
  ELSE [i \in DOMAIN cars \ {id} |-> cars[i]]

\* Car.findOneAndDelete resolves, whether or not it matched a document
DelRemove(s) ==
  /\ req[s].pc = "del_loop"
  /\ ~LoopRunning(req[s])
  /\ cars' = Without(req[s].id, req[s].user)
  /\ req' = [Live EXCEPT ![s] =
       Respond([req[s] EXCEPT !.wrote = (FindOne(req[s].id, req[s].user) # NoCar)],
               200, "handler")]
  /\ UNCHANGED <<assets, nextId, nextAsset, sent>>

DelRemoveFail(s) ==
  /\ req[s].pc = "del_loop"
  /\ ~LoopRunning(req[s])
  /\ req' = [Live EXCEPT ![s] = Respond([@ EXCEPT !.fault = "store"], 500, "handler")]
  /\ UNCHANGED <<cars, assets, nextId, nextAsset, sent>>

\* ------------------------------------------------------------- GET /, GET /:id
ListFind(s) ==
  /\ req[s].pc = "list_find"
  /\ req' = [Live EXCEPT ![s] =
       Respond([req[s] EXCEPT !.list = Find(req[s].user), !.touched = TRUE],
               200, "handler")]
  /\ UNCHANGED <<cars, assets, nextId, nextAsset, sent>>

ListFindFail(s) ==
  /\ req[s].pc = "list_find"
  /\ req' = [Live EXCEPT ![s] =
       Respond([@ EXCEPT !.fault = "store", !.touched = TRUE], 500, "handler")]
  /\ UNCHANGED <<cars, assets, nextId, nextAsset, sent>>

GetFindOne(s) ==
  /\ req[s].pc = "get_findOne"
  /\ LET r == [req[s] EXCEPT !.touched = TRUE]
         car == FindOne(r.id, r.user)
     IN req' = [Live EXCEPT ![s] =
          IF car = NoCar THEN Respond(r, 404, "handler")
          ELSE Respond([r EXCEPT !.res = car], 200, "handler")]
  /\ UNCHANGED <<cars, assets, nextId, nextAsset, sent>>

GetFindOneFail(s) ==
  /\ req[s].pc = "get_findOne"
  /\ req' = [Live EXCEPT ![s] =
       Respond([@ EXCEPT !.fault = "store", !.touched = TRUE], 500, "handler")]
  /\ UNCHANGED <<cars, assets, nextId, nextAsset, sent>>

\* one step of the request on connection s
Step(s) ==
  \/ Request(s)
  \/ UploadOk(s) \/ UploadFail(s)
  \/ PostSave(s) \/ PostSaveFail(s)
  \/ PutFindOne(s) \/ PutFindOneFail(s)
  \/ PutUpdate(s) \/ PutUpdateFail(s)
  \/ DelFindOne(s) \/ DelFindOneFail(s)
  \/ DelDestroy(s) \/ DelDestroyFail(s)
  \/ DelRemove(s) \/ DelRemoveFail(s)
  \/ ListFind(s) \/ ListFindFail(s)
  \/ GetFindOne(s) \/ GetFindOneFail(s)

Next == \E s \in Slots : Step(s)

\* Node runs the handlers of concurrent requests interleaved at their awaits
Spec == Init /\ [][Next]_vars

\* no request but the one on connection s is in flight
Alone(s) == \A q \in Slots \ {s} : req[q].pc \in {"idle", "done"}

\* The same server when its client sends a request only after the response
\* to the previous one: no two requests are in flight together
NextSeq ==
  \E s \in Slots :
    \/ Alone(s) /\ Request(s)
    \/ Alone(s) /\ UploadOk(s)
    \/ Alone(s) /\ UploadFail(s)
    \/ Alone(s) /\ PostSave(s)
    \/ Alone(s) /\ PostSaveFail(s)
    \/ Alone(s) /\ PutFindOne(s)
    \/ Alone(s) /\ PutFindOneFail(s)
    \/ Alone(s) /\ PutUpdate(s)
    \/ Alone(s) /\ PutUpdateFail(s)
    \/ Alone(s) /\ DelFindOne(s)
    \/ Alone(s) /\ DelFindOneFail(s)
    \/ Alone(s) /\ DelDestroy(s)
    \/ Alone(s) /\ DelDestroyFail(s)
    \/ Alone(s) /\ DelRemove(s)
    \/ Alone(s) /\ DelRemoveFail(s)
    \/ Alone(s) /\ ListFind(s)
    \/ Alone(s) /\ ListFindFail(s)
    \/ Alone(s) /\ GetFindOne(s)
    \/ Alone(s) /\ GetFindOneFail(s)

SpecSeq == Init /\ [][NextSeq]_vars

\* ------------------------------------------------------------- properties
Elems(seq) == {seq[i] : i \in 1..Len(seq)}

\* the requests that have been answered
Answered == {req[s] : s \in {q \in Slots : req[q].pc = "done"}}

\* the requests received, in flight or answered
Received == {req[s] : s \in {q \in Slots : req[q].pc # "idle"}}

\* a Delete that found its record and in which a remote deletion failed
FailedDelete(r) ==
  /\ r.method = "DELETE"
  /\ \E i \in 1..Len(r.log) : ~r.log[i].ok

\* every image of the record the Delete read had its deletion succeed
AllDestroyed(r) ==
  /\ Len(r.log) = Len(r.images)
  /\ \A i \in 1..Len(r.log) : r.log[i].ok

\* C1: a Delete in which a remote deletion fails answers 500 and leaves the
\* record in the collection, where a Get by its owner finds it; a Delete
\* whose record is gone from the collection had every remote deletion succeed.
C1_DeleteAllOrNothing ==
  \A r \in Answered :
    /\ FailedDelete(r) =>
         /\ r.status = 500
         /\ r.id \in DOMAIN cars
         /\ cars[r.id] = r.car
         /\ cars[r.id].user = r.user
    /\ (r.method = "DELETE" /\ r.car # NoCar /\ r.id \notin DOMAIN cars) =>
         AllDestroyed(r)

\* the second of two remote deletions failed: 500, and the record is there
C1_Witness ==
  \E r \in Answered :
    /\ FailedDelete(r) /\ Len(r.images) = 2 /\ Len(r.log) = 2
    /\ r.status = 500 /\ r.id \in DOMAIN cars

\* a request with an :id whose record belongs to another user
Foreign(r) ==
  /\ HasId(r.method)
  /\ r.user \in Users
  /\ r.id \in DOMAIN cars
  /\ cars[r.id].user # r.user

\* C2: a Get, Update or Delete by A on the id of a record of B is never
\* answered 200; when no I/O failure occurs it is answered 404 with no
\* document, as for an id no record has; it changes no record and issues no
\* remote deletion.
C2_OwnershipIsolation ==
  \A r \in Received :
    Foreign(r) =>
      /\ r.car = NoCar /\ r.res = NoCar
      /\ ~r.wrote
      /\ r.log = <<>>
      /\ r.pc = "done" =>
           /\ r.status \in {404, 500}
           /\ r.status = 500 <=> r.fault # "none"

C2_Witness ==
  \E r \in Answered :
    /\ Foreign(r) /\ r.method = "DELETE" /\ r.status = 404
    /\ cars[r.id].images # <<>>
    /\ \A u \in Elems(cars[r.id].images) : AssetOf(u) \in assets

\* C3: an Update answered 200 returns and stores the record whose images are
\* the retained list followed by the new files' URLs; a URL the record had
\* that is not in the retained list is not on the record any more.
C3_UpdateImages ==
  \A r \in Answered :
    (r.method = "PUT" /\ r.status = 200) =>
      /\ r.res # NoCar
      /\ r.res.images = ParseExisting(r.existing).val \o r.files
      /\ cars[r.id] = r.res
      /\ \A u \in Elems(r.car.images) :
           u \notin Elems(ParseExisting(r.existing).val) => u \notin Elems(cars[r.id].images)

\* existingImages = [urlA], one new file: images = [urlA, urlB]
C3_Witness ==
  \E r \in Answered :
    /\ r.method = "PUT" /\ r.status = 200
    /\ Len(r.existing.val) = 1 /\ Len(r.files) = 1
    /\ r.res.images = <<r.existing.val[1], r.files[1]>>
    /\ r.existing.val[1] # r.files[1]

\* C4: a request without a credential, with one jwt.verify rejects, or with
\* one whose user is gone, is answered 401 by the middleware on every route
\* and reaches neither the car collection nor Cloudinary.
C4_UnauthenticatedFirst ==
  \A r \in Received :
    r.cred \notin {"tokA", "tokB"} =>
      /\ r.pc = "done"
      /\ r.status = 401
      /\ r.by = "auth"
      /\ ~r.touched /\ ~r.wrote
      /\ r.files = <<>> /\ r.log = <<>>

C4_Witness ==
  \E r \in Answered :
    r.cred = "bad" /\ r.method = "DELETE" /\ r.status = 401 /\ cars # <<>>

\* C5 as the specification states it: after a Delete in which a remote
\* deletion fails, no record has an image whose asset is gone.
C5_NoDanglingRecord ==
  \A r \in Answered :
    FailedDelete(r) =>
      \A id \in DOMAIN cars :
        \A u \in Elems(cars[id].images) : AssetOf(u) \in assets

\* C5, amended: a Delete in which the k-th remote deletion fails leaves the
\* record in the collection with the assets of its first k-1 images gone; a
\* Delete that removed the record removed the asset of every image it read.
C5_PartialDeleteDangles ==
  \A r \in Answered :
    /\ FailedDelete(r) =>
         /\ r.id \in DOMAIN cars
         /\ \A i \in 1..(Len(r.log) - 1) : AssetOf(r.images[i]) \notin assets
    /\ (r.method = "DELETE" /\ r.status = 200 /\ r.wrote) =>
         \A u \in Elems(r.images) : AssetOf(u) \notin assets

\* the record is there and its first image has no asset
C5_Witness ==
  \E r \in Answered :
    /\ FailedDelete(r) /\ Len(r.log) = 2
    /\ r.id \in DOMAIN cars
    /\ cars[r.id].images = r.images
    /\ AssetOf(cars[r.id].images[1]) \notin assets

\* C6: no URL is on the image lists of two records, and no Delete issues a
\* remote deletion for an image another record lists.
C6_ImagesOwnedByOneRecord ==
  /\ \A i, j \in DOMAIN cars :
       i # j => Elems(cars[i].images) \cap Elems(cars[j].images) = {}
  /\ \A r \in Received :
       r.method = "DELETE" =>
         \A k \in 1..Len(r.log) :
           \A i \in DOMAIN cars \ {r.id} : r.log[k].url \notin Elems(cars[i].images)

\* C7: every failure an authenticated request meets is answered 500 by the
\* handler's own catch block.
C7_FailuresCaughtByHandler ==
  \A r \in Answered :
    (r.user \in Users /\ r.fault # "none") =>
      /\ r.status = 500
      /\ r.by = "handler"

\* C8: a Create answered 201 returns and stores a record whose user is the
\* caller and whose images are the uploaded files' URLs, one per file, in the
\* order of the files.
C8_CreateRecord ==
  \A r \in Answered :
    (r.method = "POST" /\ r.status = 201) =>
      /\ r.res.user = r.user
      /\ r.user = Verify(r.cred)
      /\ Len(r.res.images) = Len(r.files)
      /\ \A k \in 1..Len(r.files) : r.res.images[k] = r.files[k]
      /\ r.res.id \in DOMAIN cars
      /\ cars[r.res.id] = r.res

C8_Witness ==
  \E r \in Answered :
    /\ r.method = "POST" /\ r.status = 201 /\ r.cred = "tokB"
    /\ Len(r.files) = 2 /\ r.files[1] # r.files[2]
    /\ r.res.images = r.files

\* C9: the remote deletions of a Delete follow the record's image list, one
\* after the other; all but the last one made have succeeded; once one has
\* failed the request is answered 500 with no further deletion and without
\* the record's removal.
C9_SequentialDeletions ==
  \A r \in Received :
    r.method = "DELETE" =>
      /\ Len(r.log) <= Len(r.images)
      /\ \A i \in 1..Len(r.log) : r.log[i].url = r.images[i]
      /\ \A i \in 1..(Len(r.log) - 1) : r.log[i].ok
      /\ r.pc = "del_loop" => (r.idx = Len(r.log) + 1 /\ AllDestroyed([r EXCEPT !.images = r.log]))
      /\ FailedDelete(r) => (r.pc = "done" /\ r.status = 500 /\ ~r.wrote)
      /\ r.wrote => AllDestroyed(r)

\* the first of two remote deletions failed: the second was not issued
C9_Witness ==
  \E r \in Answered :
    /\ FailedDelete(r) /\ Len(r.images) = 2 /\ Len(r.log) = 1
    /\ r.images[1] # r.images[2]
    /\ AssetOf(r.images[2]) \in assets

\* C10: an Update answered 200 returns the updated record, carrying the
\* title, description, tags and images of the request, whatever runs beside it.
C10_UpdateReturnsRecord ==
  \A r \in Answered :
    (r.method = "PUT" /\ r.status = 200) =>
      /\ r.res # NoCar
      /\ r.res.title = r.body.title
      /\ r.res.description = r.body.description
      /\ r.res.tags = r.body.tags
      /\ r.res.images = r.images

====
